---- MODULE Spec2Model ----
(***************************************************************************)
(* Model of VendureDocsService (vendure-docs-service.ts): the tiered       *)
(* resolution chain memory cache -> network -> disk cache -> fallback of   *)
(* getDocumentContent, and the navigation functions of getPaginatedDocs    *)
(* (table of contents, section lookup, numeric pagination).                *)
(*                                                                         *)
(* Texts of the resolution chain are sequences of tokens: string           *)
(* concatenation is sequence concatenation.  Documents handed to the       *)
(* navigation functions are sequences of one-character strings.            *)
(***************************************************************************)
EXTENDS Integers, Sequences, FiniteSets, TLC

VARIABLES
    llmsTxtCache,       \* private llmsTxtCache: CachedContent | null
    llmsFullTxtCache,   \* private llmsFullTxtCache: CachedContent | null
    disk,               \* .vendure-docs-cache/<filename>.json, per filename
    projectContext,     \* whether getProjectContext() succeeds
    now,                \* Date.now()
    ticks,              \* number of clock advances so far
    calls,              \* per caller: position in getDocumentContent and its locals
    lastNetwork,        \* history: per filename, time of the last network resolve
    content,            \* navigation: the document handed to getPaginatedDocs
    result              \* navigation: the last PaginationResult and its request

vars == <<llmsTxtCache, llmsFullTxtCache, disk, projectContext, now, ticks,
          calls, lastNetwork, content, result>>

resolveVars == <<llmsTxtCache, llmsFullTxtCache, disk, projectContext, now,
                 ticks, calls, lastNetwork>>

docVars == <<content, result>>

(***************************************************************************)
(* Bounds and program constants                                            *)
(***************************************************************************)
CACHE_TTL_MS == 24 * 60 * 60 * 1000

MaxTicks == 3

\* The clock advances by one millisecond or by one millisecond less than the TTL,
\* so that both sides of the staleness boundary are reached.
ClockSteps == {1, CACHE_TTL_MS - 1}

\* The callers of the service: one at a time, or two that overlap.
OneCaller == {"c1"}

TwoCallers == {"c1", "c2"}

CacheTypes == {"llms", "full"}

Filenames == {"llms.txt", "llms-full.txt"}

(***************************************************************************)
(* Values                                                                  *)
(***************************************************************************)
\* null, for a CachedContent | null
Null == [content |-> <<>>, timestamp |-> -1]

Ok(v) == [ok |-> TRUE, val |-> v]

Thrown == [ok |-> FALSE, val |-> <<>>]

\* The body the remote server holds for a filename at a time.
RemoteText(filename, time) == << <<"web", filename, time>> >>

ProjectContextHeader == << <<"# Current Project Context">> >>

getFallbackLlmsTxt == << <<"# Vendure E-commerce Framework">> >>

getFallbackLlmsFullTxt == << <<"# Vendure E-commerce Framework - Complete Reference">> >>

FilenameOf(cacheType) == IF cacheType = "llms" THEN "llms.txt" ELSE "llms-full.txt"

(***************************************************************************)
(* Pure helpers of the service                                             *)
(***************************************************************************)
getFallbackContentGeneric(filename) ==
    << <<"# ", filename, "Fallback content - official documentation temporarily unavailable.">> >>

getFallbackContent(filename) ==
    IF filename = "llms.txt" THEN getFallbackLlmsTxt
    ELSE IF filename = "llms-full.txt" THEN getFallbackLlmsFullTxt
    ELSE getFallbackContentGeneric(filename)

isCacheValidInclusive(cache, time) == time - cache.timestamp <= CACHE_TTL_MS

isCacheValid(cache, time) == time - cache.timestamp < CACHE_TTL_MS

\* try { getProjectContext(); return header + content } catch { return content }
enhanceWithProjectContextUncaught(text, available) ==
    IF available THEN Ok(ProjectContextHeader \o text) ELSE Thrown

enhanceWithProjectContext(text, available) ==
    IF available THEN Ok(ProjectContextHeader \o text) ELSE Ok(text)

\* fetch(url): a transport error rejects; a response carries ok and a body.
Responses(filename, time) ==
    {[transport |-> FALSE, ok |-> TRUE, text |-> RemoteText(filename, time)],
     [transport |-> FALSE, ok |-> FALSE, text |-> <<>>],
     [transport |-> TRUE, ok |-> FALSE, text |-> <<>>]}

fetchFromWeb(response) ==
    IF response.transport THEN Thrown
    ELSE IF ~response.ok THEN Thrown
    ELSE Ok(response.text)

\* File contents: no file, bytes that are not JSON, or JSON.stringify of a document.
NoFile == <<"ENOENT">>

Garbage == <<"garbage">>

JSONstringify(cache) == <<"json", cache.content, cache.timestamp>>

JSONparse(data) ==
    IF Len(data) = 3 /\ data[1] = "json"
    THEN Ok([content |-> data[2], timestamp |-> data[3]])
    ELSE Thrown

\* writeFile(cacheFile, JSON.stringify(cache)) after mkdir; every error is swallowed.
\* outcome: "ok", "mkdir" (the directory cannot be made), "open" (the file cannot
\* be opened) or "truncated" (the write fails after the file was truncated).
SaveOutcomes == {"ok", "mkdir", "open", "truncated"}

\* The files after the attempt, whatever its outcome.
FilesAfterSave(files, filename, cache, outcome) ==
    IF outcome = "ok" THEN [files EXCEPT ![filename] = JSONstringify(cache)]
    ELSE IF outcome = "truncated" THEN [files EXCEPT ![filename] = Garbage]
    ELSE files

saveToDiskCacheUncaught(files, filename, cache, outcome) ==
    [ok |-> outcome = "ok", val |-> FilesAfterSave(files, filename, cache, outcome)]

\* try { mkdir; writeFile } catch { console.warn }: resolves whatever the outcome.
saveToDiskCache(files, filename, cache, outcome) ==
    [ok |-> TRUE, val |-> FilesAfterSave(files, filename, cache, outcome)]

loadFromDiskCacheKeepingStale(data, readable, time) ==
    IF data = NoFile \/ ~readable THEN [cache |-> Null, stale |-> FALSE]
    ELSE IF ~JSONparse(data).ok THEN [cache |-> Null, stale |-> FALSE]
    ELSE [cache |-> JSONparse(data).val, stale |-> FALSE]

loadFromDiskCacheRestamped(data, readable, time) ==
    IF data = NoFile \/ ~readable THEN [cache |-> Null, stale |-> FALSE]
    ELSE IF ~JSONparse(data).ok THEN [cache |-> Null, stale |-> FALSE]
    ELSE IF isCacheValid(JSONparse(data).val, time)
         THEN [cache |-> [JSONparse(data).val EXCEPT !.timestamp = time], stale |-> FALSE]
         ELSE [cache |-> Null, stale |-> TRUE]

\* readFile + JSON.parse + isCacheValid of loadFromDiskCache.  readable is FALSE
\* for an I/O error on an existing file.  The result is the document to return
\* (Null for null) and whether the stale file is to be unlinked first.
loadFromDiskCache(data, readable, time) ==
    IF data = NoFile \/ ~readable THEN [cache |-> Null, stale |-> FALSE]
    ELSE IF ~JSONparse(data).ok THEN [cache |-> Null, stale |-> FALSE]
    ELSE IF isCacheValid(JSONparse(data).val, time)
         THEN [cache |-> JSONparse(data).val, stale |-> FALSE]
         ELSE [cache |-> Null, stale |-> TRUE]

\* await fs.unlink(cacheFile).catch(() => {})
unlink(files, filename, removed) ==
    IF removed THEN [files EXCEPT ![filename] = NoFile] ELSE files

(***************************************************************************)
(* getDocumentContent, one action per stretch between two awaits           *)
(***************************************************************************)
IdleCall == [pc |-> "idle", cacheType |-> "llms", fetches |-> 0,
             cachedContent |-> Null, path |-> "none", ret |-> <<>>,
             threw |-> FALSE]

CacheOfOther(cacheType) == IF cacheType = "llms" THEN llmsFullTxtCache ELSE llmsTxtCache

CacheOf(cacheType) == IF cacheType = "llms" THEN llmsTxtCache ELSE llmsFullTxtCache

SetCacheSwapped(cacheType, cache) ==
    IF cacheType = "full"
    THEN llmsTxtCache' = cache /\ UNCHANGED llmsFullTxtCache
    ELSE llmsFullTxtCache' = cache /\ UNCHANGED llmsTxtCache

\* Lines 232-236 and 249-253: the slot of the kind.
SetCache(cacheType, cache) ==
    IF cacheType = "llms"
    THEN llmsTxtCache' = cache /\ UNCHANGED llmsFullTxtCache
    ELSE llmsFullTxtCache' = cache /\ UNCHANGED llmsTxtCache

FinishFromSlot(c, path, text) ==
    calls' = [calls EXCEPT ![c] = [@ EXCEPT !.pc = "done", !.path = path,
                                            !.ret = CacheOf(calls[c].cacheType).content,
                                            !.cachedContent = Null]]

FinishEnhanced(c, path, text) ==
    calls' = [calls EXCEPT ![c] =
                 [@ EXCEPT !.pc = "done", !.path = path,
                           !.ret = IF calls[c].cacheType = "full"
                                   THEN enhanceWithProjectContext(text, projectContext).val
                                   ELSE text,
                           !.cachedContent = Null]]

Finish(c, path, text) ==
    calls' = [calls EXCEPT ![c] = [@ EXCEPT !.pc = "done", !.path = path,
                                            !.ret = text, !.cachedContent = Null]]

\* The text of lines 262-263: the bundled content, enhanced for the full kind.
FallbackText(cacheType) ==
    IF cacheType = "full"
    THEN enhanceWithProjectContext(getFallbackContent(FilenameOf(cacheType)), projectContext)
    ELSE Ok(getFallbackContent(FilenameOf(cacheType)))

\* A rejected promise of getDocumentContent.
Throw(c, path) ==
    calls' = [calls EXCEPT ![c] = [@ EXCEPT !.pc = "done", !.path = path, !.threw = TRUE,
                                            !.cachedContent = Null]]

FallBackCaching(c) ==
    /\ FallbackText(calls[c].cacheType).ok
    /\ Finish(c, "fallback", FallbackText(calls[c].cacheType).val)
    /\ SetCache(calls[c].cacheType,
                [content |-> FallbackText(calls[c].cacheType).val, timestamp |-> now])

\* Lines 260-263: nothing is cached.
FallBack(c) ==
    /\ IF FallbackText(calls[c].cacheType).ok
       THEN Finish(c, "fallback", FallbackText(calls[c].cacheType).val)
       ELSE Throw(c, "fallback")
    /\ UNCHANGED <<llmsTxtCache, llmsFullTxtCache>>

\* getLlmsTxt / getLlmsFullTxt / getPaginatedDocs(type): lines 211-221, up to
\* the await of fetchFromWeb.
Call(c, cacheType) ==
    /\ calls[c].pc = "idle"
    /\ LET cache == CacheOf(cacheType)
       IN  IF cache # Null /\ isCacheValid(cache, now)
           THEN calls' = [calls EXCEPT ![c] =
                    [IdleCall EXCEPT !.pc = "done", !.cacheType = cacheType,
                                     !.path = "memory", !.ret = cache.content]]
           ELSE calls' = [calls EXCEPT ![c] =
                    [IdleCall EXCEPT !.pc = "fetch", !.cacheType = cacheType,
                                     !.fetches = 1]]
    /\ UNCHANGED <<llmsTxtCache, llmsFullTxtCache, disk, projectContext, now, ticks,
                   lastNetwork, docVars>>

\* The fetch settles: lines 221-239 up to the await of saveToDiskCache, or the
\* catch of line 242 up to the await of readFile.
FetchSettled(c, response) ==
    /\ calls[c].pc = "fetch"
    /\ LET cacheType == calls[c].cacheType
           fetched == fetchFromWeb(response)
           contentToCache ==
               IF ~fetched.ok THEN Thrown
               ELSE IF cacheType = "full"
                    THEN enhanceWithProjectContext(fetched.val, projectContext)
                    ELSE Ok(fetched.val)
           cachedContent == [content |-> contentToCache.val, timestamp |-> now]
       IN  IF contentToCache.ok
           THEN /\ SetCache(cacheType, cachedContent)
                /\ calls' = [calls EXCEPT ![c] = [@ EXCEPT !.pc = "save",
                                                  !.cachedContent = cachedContent]]
                /\ lastNetwork' = [lastNetwork EXCEPT ![FilenameOf(cacheType)] = now]
           ELSE /\ calls' = [calls EXCEPT ![c] = [@ EXCEPT !.pc = "read"]]
                /\ UNCHANGED <<llmsTxtCache, llmsFullTxtCache, lastNetwork>>
    /\ UNCHANGED <<disk, projectContext, now, ticks, docVars>>

\* saveToDiskCache settles: lines 239-241; a rejection would be caught at line 242.
SaveSettled(c, outcome) ==
    /\ calls[c].pc = "save"
    /\ LET saved == saveToDiskCache(disk, FilenameOf(calls[c].cacheType),
                                    calls[c].cachedContent, outcome)
       IN  /\ disk' = saved.val
           /\ IF saved.ok
              THEN Finish(c, "network", calls[c].cachedContent.content)
              ELSE calls' = [calls EXCEPT ![c] = [@ EXCEPT !.pc = "read",
                                                          !.cachedContent = Null]]
    /\ UNCHANGED <<llmsTxtCache, llmsFullTxtCache, projectContext, now, ticks,
                   lastNetwork, docVars>>

\* readFile of loadFromDiskCache settles: lines 300-305 and 247-255, or up to
\* the await of unlink (line 308), or lines 311-313 and 260-263.
ReadSettled(c, readable) ==
    /\ calls[c].pc = "read"
    /\ LET cacheType == calls[c].cacheType
           loaded == loadFromDiskCache(disk[FilenameOf(cacheType)], readable, now)
       IN  IF loaded.cache # Null
           THEN /\ SetCache(cacheType, loaded.cache)
                /\ Finish(c, "disk", loaded.cache.content)
           ELSE IF loaded.stale
                THEN /\ calls' = [calls EXCEPT ![c] = [@ EXCEPT !.pc = "unlink"]]
                     /\ UNCHANGED <<llmsTxtCache, llmsFullTxtCache>>
                ELSE FallBack(c)
    /\ UNCHANGED <<disk, projectContext, now, ticks, lastNetwork, docVars>>

\* unlink of the stale file settles: lines 308-311 and 260-263.
UnlinkSettled(c, removed) ==
    /\ calls[c].pc = "unlink"
    /\ disk' = unlink(disk, FilenameOf(calls[c].cacheType), removed)
    /\ FallBack(c)
    /\ UNCHANGED <<projectContext, now, ticks, lastNetwork, docVars>>

\* The caller takes the returned promise's value; the caller may call again.
Return(c) ==
    /\ calls[c].pc = "done"
    /\ calls' = [calls EXCEPT ![c] = IdleCall]
    /\ UNCHANGED <<llmsTxtCache, llmsFullTxtCache, disk, projectContext, now, ticks,
                   lastNetwork, docVars>>

\* Time passes.
Tick(d) ==
    /\ ticks < MaxTicks
    /\ now' = now + d
    /\ ticks' = ticks + 1
    /\ UNCHANGED <<llmsTxtCache, llmsFullTxtCache, disk, projectContext, calls,
                   lastNetwork, docVars>>

(***************************************************************************)
(* Specifications of the resolution chain                                  *)
(***************************************************************************)
\* What an earlier run of the service may have left in the cache directory.
PreviousRun(filename) ==
    IF filename = "llms-full.txt"
    THEN ProjectContextHeader \o RemoteText(filename, 1)
    ELSE RemoteText(filename, 1)

InitialFiles(filename) ==
    {NoFile, JSONstringify([content |-> PreviousRun(filename), timestamp |-> 1])}

NoResult == [request |-> <<>>, content |-> <<>>, metadata |-> <<>>]

ResolveInit ==
    /\ llmsTxtCache = Null
    /\ llmsFullTxtCache = Null
    /\ disk \in {f \in [Filenames -> UNION {InitialFiles(n) : n \in Filenames}] :
                    \A n \in Filenames : f[n] \in InitialFiles(n)}
    /\ projectContext \in BOOLEAN
    /\ now = CACHE_TTL_MS
    /\ ticks = 0
    /\ lastNetwork = [n \in Filenames |-> -1]

Init ==
    /\ ResolveInit
    /\ calls = [c \in OneCaller |-> IdleCall]
    /\ content = <<>>
    /\ result = NoResult

Next ==
    \/ \E c \in DOMAIN calls, cacheType \in CacheTypes : Call(c, cacheType)
    \/ \E c \in DOMAIN calls :
          \E response \in Responses(FilenameOf(calls[c].cacheType), now) :
             FetchSettled(c, response)
    \/ \E c \in DOMAIN calls, outcome \in SaveOutcomes : SaveSettled(c, outcome)
    \/ \E c \in DOMAIN calls, readable \in BOOLEAN : ReadSettled(c, readable)
    \/ \E c \in DOMAIN calls, removed \in BOOLEAN : UnlinkSettled(c, removed)
    \/ \E c \in DOMAIN calls : Return(c)
    \/ \E d \in ClockSteps : Tick(d)

Spec == Init /\ [][Next]_vars

(***************************************************************************)
(* Two calls that may overlap: each caller resolves once, the awaits of    *)
(* the two calls interleave in every order.                                *)
(***************************************************************************)
OverlapInit ==
    /\ ResolveInit
    /\ calls = [c \in TwoCallers |-> IdleCall]
    /\ content = <<>>
    /\ result = NoResult

OverlapNext ==
    \/ \E c \in DOMAIN calls, cacheType \in CacheTypes : Call(c, cacheType)
    \/ \E c \in DOMAIN calls :
          \E response \in Responses(FilenameOf(calls[c].cacheType), now) :
             FetchSettled(c, response)
    \/ \E c \in DOMAIN calls, outcome \in SaveOutcomes : SaveSettled(c, outcome)
    \/ \E c \in DOMAIN calls, readable \in BOOLEAN : ReadSettled(c, readable)
    \/ \E c \in DOMAIN calls, removed \in BOOLEAN : UnlinkSettled(c, removed)
    \/ \E d \in ClockSteps : Tick(d)

SpecOverlap == OverlapInit /\ [][OverlapNext]_vars

(***************************************************************************)
(* Strings: a string is the sequence of its characters; the literal pieces *)
(* of a rendered message are kept whole.                                   *)
(***************************************************************************)
MaxLines == 3

MaxPage == 6

MaxPageSize == 3

DEFAULT_PAGE_SIZE == 5000

Min(a, b) == IF a < b THEN a ELSE b

MathFloor(a, b) == IF b > 0 THEN a \div b ELSE (-a) \div (-b)

\* Math.ceil(a / b) for integers a >= 0 and b # 0
MathCeil(a, b) == IF b > 0 THEN -((-a) \div b) ELSE -(a \div (-b))

RECURSIVE splitDroppingLastEmpty(_, _)
splitDroppingLastEmpty(s, sep) ==
    IF \A i \in 1..Len(s) : s[i] # sep THEN (IF s = <<>> THEN <<>> ELSE <<s>>)
    ELSE LET i == CHOOSE i \in 1..Len(s) : s[i] = sep /\ \A j \in 1..(i - 1) : s[j] # sep
         IN  <<SubSeq(s, 1, i - 1)>> \o splitDroppingLastEmpty(SubSeq(s, i + 1, Len(s)), sep)

RECURSIVE splitAt(_, _)
splitAt(s, sep) ==
    IF \A i \in 1..Len(s) : s[i] # sep THEN <<s>>
    ELSE LET i == CHOOSE i \in 1..Len(s) : s[i] = sep /\ \A j \in 1..(i - 1) : s[j] # sep
         IN  <<SubSeq(s, 1, i - 1)>> \o splitAt(SubSeq(s, i + 1, Len(s)), sep)

\* String.prototype.split(sep) for a one-character separator
split(s, sep) == splitAt(s, sep)

\* Array.prototype.join(sep); sep is a sequence of pieces
RECURSIVE join(_, _)
join(parts, sep) ==
    IF Len(parts) = 0 THEN <<>>
    ELSE IF Len(parts) = 1 THEN parts[1]
    ELSE parts[1] \o sep \o join(Tail(parts), sep)

\* Array.prototype.slice(start, end) for 0 <= start
slice(a, start, end) == SubSeq(a, start + 1, Min(end, Len(a)))

UpperCase == <<"A", "B", "C", "D", "E", "F", "G", "H", "I", "J", "K", "L", "M",
               "N", "O", "P", "Q", "R", "S", "T", "U", "V", "W", "X", "Y", "Z">>

LowerCase == <<"a", "b", "c", "d", "e", "f", "g", "h", "i", "j", "k", "l", "m",
               "n", "o", "p", "q", "r", "s", "t", "u", "v", "w", "x", "y", "z">>

toLowerCase(s) ==
    [i \in 1..Len(s) |->
        IF \E n \in 1..Len(UpperCase) : UpperCase[n] = s[i]
        THEN LowerCase[CHOOSE n \in 1..Len(UpperCase) : UpperCase[n] = s[i]]
        ELSE s[i]]

startsWith(s, sub) == Len(sub) <= Len(s) /\ SubSeq(s, 1, Len(sub)) = sub

\* String.prototype.includes
includes(s, sub) ==
    \E i \in 0..(Len(s) - Len(sub)) : SubSeq(s, i + 1, i + Len(sub)) = sub

\* \s of a regular expression, and the characters . does not match
WhiteSpace == {" ", "\t", "\r", "\n", "\f"}

LineTerminators == {"\n", "\r"}

RECURSIVE trimStart(_)
trimStart(s) == IF s # <<>> /\ Head(s) \in WhiteSpace THEN trimStart(Tail(s)) ELSE s

RECURSIVE trimEnd(_)
trimEnd(s) ==
    IF s # <<>> /\ s[Len(s)] \in WhiteSpace THEN trimEnd(SubSeq(s, 1, Len(s) - 1)) ELSE s

\* String.prototype.trim
trim(s) == trimEnd(trimStart(s))

\* String.prototype.repeat
RECURSIVE repeat(_, _)
repeat(s, n) == IF n <= 0 THEN <<>> ELSE s \o repeat(s, n - 1)

\* The number of leading characters of s that are in set
RECURSIVE Leading(_, _)
Leading(s, set) == IF s # <<>> /\ Head(s) \in set THEN 1 + Leading(Tail(s), set) ELSE 0

(***************************************************************************)
(* Section parsing                                                         *)
(***************************************************************************)
\* line.match(/^(#{1,6})\s+(.+)$/): the hashes are group 1; \s+ takes as much
\* white space as leaves a non-empty rest without line terminator for group 2.
headerMatch(line) ==
    LET hashes == Leading(line, {"#"})
        rest == SubSeq(line, hashes + 1, Len(line))
        spaces == Leading(rest, WhiteSpace)
        After(k) == SubSeq(rest, k + 1, Len(rest))
        takes == {k \in 1..spaces :
                     /\ After(k) # <<>>
                     /\ \A i \in 1..Len(After(k)) : After(k)[i] \notin LineTerminators}
        most == CHOOSE k \in takes : \A j \in takes : j <= k
    IN  IF hashes >= 1 /\ hashes <= 6 /\ takes # {}
        THEN [matched |-> TRUE, group1 |-> SubSeq(line, 1, hashes), group2 |-> After(most)]
        ELSE [matched |-> FALSE, group1 |-> <<>>, group2 |-> <<>>]

\* The loop of parseSections from line index on (0-based); open is <<>> while
\* currentSection is undefined and <<currentSection>> otherwise.
RECURSIVE parseSectionsFrom(_, _, _, _)
parseSectionsFrom(lines, index, sections, open) ==
    IF index >= Len(lines)
    THEN IF open # <<>>
         THEN Append(sections, [open[1] EXCEPT !.endLine = Len(lines) - 1])
         ELSE sections
    ELSE LET line == lines[index + 1]
             m == headerMatch(line)
         IN  IF m.matched
             THEN parseSectionsFrom(lines, index + 1,
                      IF open # <<>>
                      THEN Append(sections, [open[1] EXCEPT !.endLine = index - 1])
                      ELSE sections,
                      << [title |-> trim(m.group2), level |-> Len(m.group1),
                          content |-> line \o <<"\n">>,
                          startLine |-> index, endLine |-> index] >>)
             ELSE IF open # <<>>
             THEN parseSectionsFrom(lines, index + 1, sections,
                      << [open[1] EXCEPT !.content = @ \o line \o <<"\n">>] >>)
             ELSE parseSectionsFrom(lines, index + 1, sections, open)

parseSectionsUnclosed(text) ==
    LET sections == parseSectionsFrom(split(text, "\n"), 0, <<>>, <<>>)
    IN  [i \in 1..Len(sections) |->
            IF i = Len(sections) THEN [sections[i] EXCEPT !.endLine = sections[i].startLine]
            ELSE sections[i]]

parseSections(text) == parseSectionsFrom(split(text, "\n"), 0, <<>>, <<>>)

(***************************************************************************)
(* Navigation                                                              *)
(***************************************************************************)
\* The lines of the table of contents for the sections from index on.
RECURSIVE tocEntries(_, _)
tocEntries(sections, index) ==
    IF index > Len(sections) THEN <<>>
    ELSE repeat(<<"  ">>, sections[index].level - 1)
         \o <<ToString(index), ". ">> \o sections[index].title \o <<"\n">>
         \o tocEntries(sections, index + 1)

getTableOfContents(text) ==
    LET sections == parseSections(text)
    \* (a backquote of the source's literals is written ' here)
    IN  [content |->
            <<"# Vendure Documentation - Table of Contents\n\n",
              "Use the 'section' parameter to retrieve specific sections.\n\n",
              "## Available Sections\n\n">>
            \o tocEntries(sections, 1)
            \o <<"\n## Usage Examples\n\n",
                 "- Get specific section: '{ \"type\": \"standard\", \"section\": \"Core Concepts\" }'\n",
                 "- Get page 1: '{ \"type\": \"standard\", \"page\": 1, \"pageSize\": 5000 }'\n">>,
         metadata |-> [totalSections |-> Len(sections)]]

\* The shape of both results of getSection.
SectionNotFound(sections, sectionTitle, metadata) ==
    [content |->
        <<"# Section Not Found\n\nCould not find section matching: \"">>
        \o sectionTitle
        \o <<"\"\n\n## Available sections:\n- ">>
        \o join([i \in 1..Len(sections) |-> sections[i].title], <<"\n- ">>),
     metadata |-> metadata]

SectionFound(sections, section) ==
    [content |-> section.content,
     metadata |-> [totalSections |-> Len(sections), currentSection |-> section.title]]

getSectionQueryAsIs(text, sectionTitle) ==
    LET sections == parseSections(text)
        found == {i \in 1..Len(sections) :
                     includes(toLowerCase(sections[i].title), sectionTitle)}
        first == CHOOSE i \in found : \A j \in found : i <= j
    IN  IF found = {}
        THEN SectionNotFound(sections, sectionTitle, [totalSections |-> Len(sections)])
        ELSE SectionFound(sections, sections[first])

getSectionEchoingQuery(text, sectionTitle) ==
    LET sections == parseSections(text)
        found == {i \in 1..Len(sections) :
                     includes(toLowerCase(sections[i].title), toLowerCase(sectionTitle))}
        first == CHOOSE i \in found : \A j \in found : i <= j
    IN  IF found = {}
        THEN SectionNotFound(sections, sectionTitle,
                 [totalSections |-> Len(sections), currentSection |-> sectionTitle])
        ELSE SectionFound(sections, sections[first])

getSection(text, sectionTitle) ==
    LET sections == parseSections(text)
        found == {i \in 1..Len(sections) :
                     includes(toLowerCase(sections[i].title), toLowerCase(sectionTitle))}
        first == CHOOSE i \in found : \A j \in found : i <= j
    IN  IF found = {}
        THEN [content |->
                 <<"# Section Not Found\n\nCould not find section matching: \"">>
                 \o sectionTitle
                 \o <<"\"\n\n## Available sections:\n- ">>
                 \o join([i \in 1..Len(sections) |-> sections[i].title], <<"\n- ">>),
              metadata |-> [totalSections |-> Len(sections)]]
        ELSE [content |-> sections[first].content,
              metadata |-> [totalSections |-> Len(sections),
                            currentSection |-> sections[first].title]]

getPageInclusiveEnd(text, page, pageSize) ==
    LET lines == split(text, "\n")
        totalPages == MathCeil(Len(lines), pageSize)
        startLine == (page - 1) * pageSize
        endLine == Min(startLine + pageSize, Len(lines))
    IN  IF page < 1 \/ page > totalPages
        THEN [content |-> <<"# Invalid Page\n\nPage ", ToString(page),
                            " is out of range. Total pages: ", ToString(totalPages)>>,
              metadata |-> [totalPages |-> totalPages, pageSize |-> pageSize]]
        ELSE [content |-> join(slice(lines, startLine, endLine + 1), <<"\n">>),
              metadata |-> [totalPages |-> totalPages, currentPage |-> page,
                            pageSize |-> pageSize]]

getPage(text, page, pageSize) ==
    LET lines == split(text, "\n")
        totalPages == MathCeil(Len(lines), pageSize)
        startLine == (page - 1) * pageSize
        endLine == Min(startLine + pageSize, Len(lines))
    IN  IF page < 1 \/ page > totalPages
        THEN [content |-> <<"# Invalid Page\n\nPage ", ToString(page),
                            " is out of range. Total pages: ", ToString(totalPages)>>,
              metadata |-> [totalPages |-> totalPages, pageSize |-> pageSize]]
        ELSE [content |-> join(slice(lines, startLine, endLine), <<"\n">>),
              metadata |-> [totalPages |-> totalPages, currentPage |-> page,
                            pageSize |-> pageSize]]

\* An optional property of the options object: undefined, or a value.
NoSection == [given |-> FALSE, value |-> <<>>]

NoNumber == [given |-> FALSE, value |-> 0]

Some(v) == [given |-> TRUE, value |-> v]

\* !x of JavaScript for an optional string and an optional number
FalsyString(opt) == ~opt.given \/ opt.value = <<>>

FalsyNumber(opt) == ~opt.given \/ opt.value = 0

\* Lines 62-81 of getPaginatedDocs, on the resolved document.
getPaginatedDocs(fullContent, options) ==
    IF FalsyString(options.section) /\ FalsyNumber(options.page)
    THEN getTableOfContents(fullContent)
    ELSE IF ~FalsyString(options.section)
    THEN getSection(fullContent, options.section.value)
    ELSE IF options.page.given
    THEN getPage(fullContent, options.page.value,
                 IF FalsyNumber(options.pageSize) THEN DEFAULT_PAGE_SIZE
                 ELSE options.pageSize.value)
    ELSE [content |-> fullContent, metadata |-> <<>>]

(***************************************************************************)
(* Specification of the navigation: a resolved document, and requests      *)
(***************************************************************************)
LinePool == { <<>>, <<"x">>, <<"y">>, <<"#", " ", "A", "b">>, <<"#", "#", " ", "B">>,
              <<"#", "x">> }

\* "# A\nx\n## B\ny\n"
ScenarioDocument ==
    <<"#", " ", "A", "\n", "x", "\n", "#", "#", " ", "B", "\n", "y", "\n">>

Documents ==
    {join(lines, <<"\n">>) : lines \in UNION {[1..n -> LinePool] : n \in 1..MaxLines}}
    \cup {ScenarioDocument}

Queries == { <<>>, <<"b">>, <<"z">> }

Requests ==
    [section : {NoSection} \cup {Some(q) : q \in Queries},
     page : {NoNumber} \cup {Some(p) : p \in -1..MaxPage},
     pageSize : {NoNumber} \cup {Some(n) : n \in 0..MaxPageSize}]

DocsInit ==
    /\ ResolveInit
    /\ calls = [c \in OneCaller |-> IdleCall]
    /\ disk = [n \in Filenames |-> NoFile]
    /\ projectContext = TRUE
    /\ content \in Documents
    /\ result = NoResult

\* getPaginatedDocs(type, options) once the document is resolved (line 60); the
\* caller has no other request outstanding.
Serve(options) ==
    /\ result = NoResult
    /\ LET r == getPaginatedDocs(content, options)
       IN  result' = [request |-> options, content |-> r.content, metadata |-> r.metadata]
    /\ UNCHANGED <<resolveVars, content>>

\* The caller takes the result.
Receive ==
    /\ result # NoResult
    /\ result' = NoResult
    /\ UNCHANGED <<resolveVars, content>>

DocsNext ==
    \/ \E options \in Requests : Serve(options)
    \/ Receive

SpecDocs == DocsInit /\ [][DocsNext]_vars

(***************************************************************************)
(* Specification of the navigation over documents of one candidate heading *)
(* line between two plain lines                                            *)
(***************************************************************************)
MaxHashes == 7

MaxTail == 3

HeadingAlphabet == {" ", "\t", "\r", "A"}

\* 0..MaxHashes '#' characters followed by up to MaxTail other characters.
HeadingLines ==
    {repeat(<<"#">>, h) \o tail :
        h \in 0..MaxHashes,
        tail \in UNION {[1..n -> HeadingAlphabet] : n \in 0..MaxTail}}

HeadingDocuments == {<<"x", "\n">> \o line \o <<"\n", "y">> : line \in HeadingLines}

HeadingsInit ==
    /\ ResolveInit
    /\ calls = [c \in OneCaller |-> IdleCall]
    /\ disk = [n \in Filenames |-> NoFile]
    /\ projectContext = TRUE
    /\ content \in HeadingDocuments
    /\ result = NoResult

SpecHeadings == HeadingsInit /\ [][DocsNext]_vars

(***************************************************************************)
(* Properties of the resolution chain                                      *)
(***************************************************************************)
Fresh(cache, time) == cache # Null /\ time - cache.timestamp < CACHE_TTL_MS

\* The text a successful fetch of a kind at a time is cached and returned as.
FetchedText(cacheType, time) ==
    IF cacheType = "full" /\ projectContext
    THEN ProjectContextHeader \o RemoteText(FilenameOf(cacheType), time)
    ELSE RemoteText(FilenameOf(cacheType), time)

\* The text a kind falls back to.
StaticFallback(cacheType) ==
    IF cacheType = "llms" THEN getFallbackLlmsTxt
    ELSE IF projectContext THEN ProjectContextHeader \o getFallbackLlmsFullTxt
    ELSE getFallbackLlmsFullTxt

\* C1: a resolve that has settled has returned a non-empty text and has not
\* thrown, whatever the network, the disk and the project context did.
C1_ResolveNeverThrows ==
    \A c \in DOMAIN calls :
        calls[c].pc = "done" =>
            /\ ~calls[c].threw
            /\ calls[c].path \in {"memory", "network", "disk", "fallback"}
            /\ Len(calls[c].ret) >= 1

\* C1 witness: a full-kind resolve has settled on the fallback with the project
\* context unavailable and an unparsable cache file.
C1_Witness ==
    \E c \in DOMAIN calls :
        /\ calls[c].pc = "done" /\ calls[c].path = "fallback"
        /\ calls[c].cacheType = "full" /\ ~projectContext
        /\ disk["llms-full.txt"] = Garbage

C3_DiskFallback ==
    [][\A c \in DOMAIN calls :
          LET k == calls[c].cacheType
              parsed == JSONparse(disk[FilenameOf(k)])
          IN  (ReadSettled(c, TRUE) /\ parsed.ok
                  /\ now - parsed.val.timestamp < CACHE_TTL_MS) =>
                  /\ calls'[c].pc = "done" /\ ~calls'[c].threw
                  /\ calls'[c].ret = parsed.val.content
                  /\ CacheOf(k)' = parsed.val
                  /\ calls'[c].fetches = 1]_vars

\* C3 witness: a resolve has returned the disk document, which is now the
\* memory slot of its kind.
C3_Witness ==
    \E c \in DOMAIN calls :
        /\ calls[c].pc = "done" /\ calls[c].path = "disk"
        /\ CacheOf(calls[c].cacheType).content = calls[c].ret

\* The cache file of a kind cannot serve a resolve at a time.
DiskUnusable(cacheType, time) ==
    LET parsed == JSONparse(disk[FilenameOf(cacheType)])
    IN  ~parsed.ok \/ time - parsed.val.timestamp >= CACHE_TTL_MS

\* C4: when the fetch has failed and the cache file is missing, unreadable,
\* unparsable or stale, the resolve returns the static fallback of its kind:
\* for the full kind behind the project-context header when the context is
\* available, unmodified otherwise.
C4_StaticFallback ==
    [][\A c \in DOMAIN calls :
          LET k == calls[c].cacheType
          IN  /\ (calls[c].pc = "read" /\ calls'[c].pc # "read"
                     /\ (DiskUnusable(k, now) \/ ~ReadSettled(c, TRUE))) =>
                     \/ calls'[c].pc = "unlink"
                     \/ /\ calls'[c].pc = "done" /\ ~calls'[c].threw
                        /\ calls'[c].ret = StaticFallback(k)
              /\ (calls[c].pc = "unlink" /\ calls'[c].pc # "unlink") =>
                     /\ calls'[c].pc = "done" /\ ~calls'[c].threw
                     /\ calls'[c].ret = StaticFallback(k)]_vars

\* C4 witness: a full-kind resolve has returned the header followed by the full
\* fallback text.
C4_Witness ==
    \E c \in DOMAIN calls :
        /\ calls[c].pc = "done" /\ calls[c].path = "fallback"
        /\ calls[c].cacheType = "full" /\ projectContext
        /\ calls[c].ret = ProjectContextHeader \o getFallbackLlmsFullTxt

\* A text that is a static fallback, enhanced or not.
IsFallbackText(text) ==
    text \in {getFallbackLlmsTxt, getFallbackLlmsFullTxt,
              ProjectContextHeader \o getFallbackLlmsTxt,
              ProjectContextHeader \o getFallbackLlmsFullTxt}

\* C5: no step of a resolve that ends on the fallback changes a memory slot,
\* and the cache file is at most deleted; no memory slot and no cache file ever
\* holds a fallback text; when the resolve has returned the fallback the slot of
\* its kind is not fresh, so the next resolve of the kind fetches again.
C5_FallbackNotCached ==
    /\ [][\A c \in DOMAIN calls :
             (/\ calls[c].pc # "done"
              /\ calls'[c].pc # calls[c].pc
              /\ \/ calls'[c].pc \in {"fetch", "read", "unlink"}
                 \/ calls'[c].path = "fallback") =>
                 /\ UNCHANGED <<llmsTxtCache, llmsFullTxtCache>>
                 /\ \/ disk' = disk
                    \/ disk' = [disk EXCEPT ![FilenameOf(calls[c].cacheType)] = NoFile]]_vars
    /\ [](\A k \in CacheTypes :
             /\ ~IsFallbackText(CacheOf(k).content)
             /\ JSONparse(disk[FilenameOf(k)]).ok =>
                    ~IsFallbackText(JSONparse(disk[FilenameOf(k)]).val.content))
    /\ [](\A c \in DOMAIN calls :
             (calls[c].pc = "done" /\ calls[c].path = "fallback") =>
                 ~Fresh(CacheOf(calls[c].cacheType), now))

\* C5 witness: a resolve has returned the fallback while the slot of its kind
\* holds an expired document.
C5_Witness ==
    \E c \in DOMAIN calls :
        /\ calls[c].pc = "done" /\ calls[c].path = "fallback"
        /\ CacheOf(calls[c].cacheType) # Null

\* C6: when the fetch succeeds the memory slot of the kind becomes the fetched
\* text (behind the header for the full kind) with the current time; the save
\* that follows writes that document when it succeeds, and whatever its outcome
\* the resolve returns the fetched text and the memory slot stays.
C6_NetworkWriteThrough ==
    [][\A c \in DOMAIN calls :
          LET k == calls[c].cacheType
              f == FilenameOf(k)
          IN  /\ FetchSettled(c, [transport |-> FALSE, ok |-> TRUE,
                                   text |-> RemoteText(f, now)]) =>
                     /\ CacheOf(k)' = [content |-> FetchedText(k, now), timestamp |-> now]
                     /\ calls'[c].pc = "save"
              /\ (calls[c].pc = "save" /\ calls'[c].pc # "save") =>
                     /\ calls'[c].pc = "done" /\ ~calls'[c].threw
                     /\ calls'[c].ret = calls[c].cachedContent.content
                     /\ CacheOf(k) = calls[c].cachedContent
                     /\ UNCHANGED <<llmsTxtCache, llmsFullTxtCache>>
                     /\ \/ disk' = [disk EXCEPT ![f] = JSONstringify(CacheOf(k))]
                        \/ disk' = [disk EXCEPT ![f] = Garbage]
                        \/ disk' = disk
                     /\ SaveSettled(c, "ok") =>
                            disk'[f] = JSONstringify(CacheOf(k))]_vars

\* C6 witness: a full-kind resolve has returned the fetched text behind the
\* header although the save left an unparsable file.
C6_Witness ==
    \E c \in DOMAIN calls :
        /\ calls[c].pc = "done" /\ calls[c].path = "network"
        /\ calls[c].cacheType = "full" /\ projectContext
        /\ disk["llms-full.txt"] = Garbage
        /\ llmsFullTxtCache.content = calls[c].ret
        /\ Head(calls[c].ret) = Head(ProjectContextHeader)

(***************************************************************************)
(* Properties of the navigation                                            *)
(***************************************************************************)
\* The page size a request asks for: its pageSize, or 5000 when it gives none.
RequestedPageSize(options) ==
    IF options.pageSize.given /\ options.pageSize.value # 0
    THEN options.pageSize.value ELSE 5000

LineCount(text) == Cardinality({i \in 1..Len(text) : text[i] = "\n"}) + 1

InvalidPageMessage(page, totalPages) ==
    <<"# Invalid Page\n\nPage ", ToString(page),
      " is out of range. Total pages: ", ToString(totalPages)>>

\* C7: a request with neither section nor page gets the table of contents; a
\* request with a section gets the section lookup, whether or not it has a
\* page; a request with a page only gets numeric pagination, with pageSize 5000
\* when it gives none.  (Requests whose section is the empty string are left
\* out: the claim does not say whether such a section is given.)
C7_Dispatch ==
    (result # NoResult /\ result.request.section # Some(<<>>)) =>
        LET o == result.request
            view == [content |-> result.content, metadata |-> result.metadata]
        IN  /\ (~o.section.given /\ ~o.page.given) => view = getTableOfContents(content)
            /\ o.section.given => view = getSection(content, o.section.value)
            /\ (~o.section.given /\ o.page.given) =>
                   view = getPage(content, o.page.value, RequestedPageSize(o))

\* C8: a request without section whose page is below 1 or above totalPages gets
\* the invalid-page message, with metadata of exactly totalPages and pageSize.
C8_OutOfRangePage ==
    result # NoResult =>
        LET o == result.request
            totalPages == MathCeil(LineCount(content), RequestedPageSize(o))
        IN  (~o.section.given /\ o.page.given
                /\ (o.page.value < 1 \/ o.page.value > totalPages)) =>
                /\ result.content = InvalidPageMessage(o.page.value, totalPages)
                /\ DOMAIN result.metadata = {"totalPages", "pageSize"}
                /\ result.metadata.totalPages = totalPages
                /\ result.metadata.pageSize = RequestedPageSize(o)

\* The contents of pages 1..totalPages, joined by newlines.
JoinedPages(text, pageSize) ==
    join([p \in 1..MathCeil(LineCount(text), pageSize) |->
             getPage(text, p, pageSize).content], <<"\n">>)

\* C9: for every document and every page size above 0, the pages 1..totalPages
\* joined by newlines are the document, and each of them is a valid page.
C9_PaginationRoundTrip ==
    \A pageSize \in (1..MaxPageSize) \cup {DEFAULT_PAGE_SIZE} :
        /\ JoinedPages(content, pageSize) = content
        /\ \A p \in 1..MathCeil(LineCount(content), pageSize) :
              /\ DOMAIN getPage(content, p, pageSize).metadata
                     = {"totalPages", "currentPage", "pageSize"}
              /\ getPage(content, p, pageSize).metadata.totalPages
                     = MathCeil(LineCount(content), pageSize)

\* C9 witness: the second page of a document that ends with a newline has been
\* served.
C9_Witness ==
    /\ result # NoResult
    /\ "currentPage" \in DOMAIN result.metadata
    /\ result.metadata.currentPage = 2
    /\ content # <<>> /\ content[Len(content)] = "\n"

\* The request is answered by numeric pagination.
IsPageRequest(options) == FalsyString(options.section) /\ ~FalsyNumber(options.page)

EndsWithNewline(text) == text # <<>> /\ text[Len(text)] = "\n"

\* C10 as stated: a document of n newline-terminated lines has
\* totalPages = ceil(n / pageSize), so the scenario document has 4 pages of one
\* line and its page 5 is out of range.
C10_Original ==
    (result # NoResult /\ IsPageRequest(result.request) /\ EndsWithNewline(content)) =>
        /\ result.metadata.totalPages
               = MathCeil(LineCount(content) - 1, RequestedPageSize(result.request))
        /\ (content = ScenarioDocument /\ RequestedPageSize(result.request) = 1
               /\ result.request.page.value = 5) =>
               result.content = InvalidPageMessage(5, 4)

\* C10 amended: a document of n newline-terminated lines splits into n + 1
\* lines, the last one empty, and has totalPages = ceil((n + 1) / pageSize); the
\* scenario document with pageSize 1 has 5 pages: "# A", "x", "## B", "y" and
\* the empty page 5, and its page 6 is out of range.
C10_TrailingNewlinePages ==
    /\ (result # NoResult /\ IsPageRequest(result.request) /\ EndsWithNewline(content)) =>
           result.metadata.totalPages
               = MathCeil(Cardinality({i \in 1..Len(content) : content[i] = "\n"}) + 1,
                          RequestedPageSize(result.request))
    /\ (result # NoResult /\ IsPageRequest(result.request) /\ content = ScenarioDocument
           /\ RequestedPageSize(result.request) = 1) =>
           LET page == result.request.page.value
           IN  /\ result.metadata.totalPages = 5
               /\ page = 1 => result.content = <<"#", " ", "A">>
               /\ page = 2 => result.content = <<"x">>
               /\ page = 3 => result.content = <<"#", "#", " ", "B">>
               /\ page = 4 => result.content = <<"y">>
               /\ page = 5 => result.content = <<>>
               /\ page \in 1..5 <=> "currentPage" \in DOMAIN result.metadata
               /\ page = 6 => result.content = InvalidPageMessage(6, 5)

\* C10 witness: page 5 of the scenario document with pageSize 1 has been served
\* as a page.
C10_Witness ==
    /\ result # NoResult
    /\ content = ScenarioDocument
    /\ result.request = [section |-> NoSection, page |-> Some(5), pageSize |-> Some(1)]
    /\ "currentPage" \in DOMAIN result.metadata

\* The positions of the newlines of a text, and its lines by their 0-based index.
NewlinesOf(text) == {i \in 1..Len(text) : text[i] = "\n"}

NthNewline(text, n) ==
    CHOOSE i \in NewlinesOf(text) : Cardinality({j \in NewlinesOf(text) : j <= i}) = n

LineStart(text, k) == IF k = 0 THEN 1 ELSE NthNewline(text, k) + 1

LineEnd(text, k) ==
    IF k = Cardinality(NewlinesOf(text)) THEN Len(text) ELSE NthNewline(text, k + 1) - 1

\* C11: a request answered by numeric pagination whose page p is in
\* 1..totalPages gets the text from the start of line (p - 1) * pageSize to the
\* end of line min(p * pageSize, lineCount) - 1 (0-based), which is between 1
\* and pageSize lines, with metadata of exactly totalPages, currentPage = p and
\* pageSize.
C11_ValidPage ==
    (result # NoResult /\ IsPageRequest(result.request)) =>
        LET p == result.request.page.value
            pageSize == RequestedPageSize(result.request)
            lineCount == Cardinality(NewlinesOf(content)) + 1
            totalPages == (lineCount + pageSize - 1) \div pageSize
            from == (p - 1) * pageSize
            to == IF p * pageSize < lineCount THEN p * pageSize ELSE lineCount
        IN  (p >= 1 /\ p <= totalPages) =>
                /\ to - from >= 1 /\ to - from <= pageSize
                /\ result.content
                       = SubSeq(content, LineStart(content, from), LineEnd(content, to - 1))
                /\ DOMAIN result.metadata = {"totalPages", "currentPage", "pageSize"}
                /\ result.metadata.totalPages = totalPages
                /\ result.metadata.currentPage = p
                /\ result.metadata.pageSize = pageSize

\* C11 witness: the last page of a three-line document with pageSize 2 has been
\* served; it holds one line.
C11_Witness ==
    /\ result # NoResult
    /\ IsPageRequest(result.request)
    /\ result.request.page.value = 2 /\ result.request.pageSize = Some(2)
    /\ Cardinality(NewlinesOf(content)) = 2
    /\ "currentPage" \in DOMAIN result.metadata
    /\ result.content = SubSeq(content, LineStart(content, 2), Len(content))

\* Two characters are the same letter, whatever their case.
SameLetter(a, b) ==
    a = b \/ \E n \in 1..Len(UpperCase) : {a, b} = {UpperCase[n], LowerCase[n]}

\* The title contains the query, whatever the case of their letters.
ContainsIgnoringCase(title, query) ==
    \E at \in 0..(Len(title) - Len(query)) :
        \A i \in 1..Len(query) : SameLetter(title[at + i], query[i])

\* The indices of the sections of a text whose title contains the query.
MatchingSections(text, query) ==
    {i \in 1..Len(parseSections(text)) :
        ContainsIgnoringCase(parseSections(text)[i].title, query)}

\* The request is answered by the section lookup.
IsSectionRequest(options) == ~FalsyString(options.section)

\* C12: a section lookup whose query is contained, whatever the case, in the
\* title of some section returns the first such section in document order, also
\* when a later title equals the query, with metadata of exactly
\* totalSections = the number of sections and currentSection = that section's
\* title.
C12_FirstMatch ==
    (result # NoResult /\ IsSectionRequest(result.request)) =>
        LET sections == parseSections(content)
            matching == MatchingSections(content, result.request.section.value)
        IN  matching # {} =>
                \E i \in matching :
                    /\ \A j \in matching : i <= j
                    /\ result.content = sections[i].content
                    /\ DOMAIN result.metadata = {"totalSections", "currentSection"}
                    /\ result.metadata.totalSections = Len(sections)
                    /\ result.metadata.currentSection = sections[i].title

\* C12 witness: the query "b" on a document whose sections are "Ab" and then
\* "B" has returned the section "Ab".
C12_Witness ==
    /\ result # NoResult
    /\ result.request.section = Some(<<"b">>)
    /\ Len(parseSections(content)) = 2
    /\ parseSections(content)[1].title = <<"A", "b">>
    /\ parseSections(content)[2].title = <<"B">>
    /\ "currentSection" \in DOMAIN result.metadata
    /\ result.metadata.currentSection = <<"A", "b">>

\* The source text of the lines from..to (0-based, inclusive) of a text, up to
\* and including the newline that ends line to, when there is one.
SourceLines(text, from, to) ==
    SubSeq(text, LineStart(text, from),
           IF to = Cardinality(NewlinesOf(text)) THEN Len(text) ELSE NthNewline(text, to + 1))

\* C13: the body returned for a matched section is the source text from its
\* heading line up to the line before the next heading, or up to the end of the
\* document, and nothing else; the scenario document queried for "b" returns
\* the section "B" with the body "## B\ny\n".
C13_BodyVerbatim ==
    (result # NoResult /\ IsSectionRequest(result.request)
        /\ "currentSection" \in DOMAIN result.metadata) =>
        LET sections == parseSections(content)
            matching == MatchingSections(content, result.request.section.value)
            i == CHOOSE i \in matching : \A j \in matching : i <= j
        IN  /\ result.content
                   = SourceLines(content, sections[i].startLine, sections[i].endLine)
            /\ (content = ScenarioDocument /\ result.request.section = Some(<<"b">>)) =>
                   /\ result.metadata.currentSection = <<"B">>
                   /\ result.content = <<"#", "#", " ", "B", "\n", "y", "\n">>

\* A request for a section and nothing else.
SectionQuery(query) == [section |-> Some(query), page |-> NoNumber, pageSize |-> NoNumber]

\* C14: when a section lookup has matched a section, the lookup of the returned
\* title on the same document matches the section at the same position and
\* returns the same body and the same metadata.
C14_LookupIdempotent ==
    (result # NoResult /\ IsSectionRequest(result.request)
        /\ "currentSection" \in DOMAIN result.metadata) =>
        LET title == result.metadata.currentSection
            again == getPaginatedDocs(content, SectionQuery(title))
            first == MatchingSections(content, result.request.section.value)
            second == MatchingSections(content, title)
        IN  /\ again.content = result.content
            /\ again.metadata = result.metadata
            /\ second # {}
            /\ \A i \in first : \E j \in second : j <= i
            /\ \A j \in second : \E i \in first : i <= j

\* C14 witness: the query "b" has returned the section titled "Ab", a title
\* that differs from the query in length and in case, in a document that also
\* has a section "B".
C14_Witness ==
    /\ result # NoResult
    /\ result.request.section = Some(<<"b">>)
    /\ "currentSection" \in DOMAIN result.metadata
    /\ result.metadata.currentSection = <<"A", "b">>
    /\ \E i \in 1..Len(parseSections(content)) : parseSections(content)[i].title = <<"B">>

\* The titles of the sections from index on, each after the first on a new
\* list item.
RECURSIVE TitleList(_, _)
TitleList(sections, index) ==
    IF index > Len(sections) THEN <<>>
    ELSE (IF index > 1 THEN <<"\n- ">> ELSE <<>>)
         \o sections[index].title \o TitleList(sections, index + 1)

\* C15: a section lookup whose query is in no title returns, as a result, the
\* not-found message with the query and every title in document order, with
\* metadata of exactly totalSections.
C15_SectionNotFound ==
    (result # NoResult /\ IsSectionRequest(result.request)
        /\ MatchingSections(content, result.request.section.value) = {}) =>
        /\ result.content
               = <<"# Section Not Found\n\nCould not find section matching: \"">>
                 \o result.request.section.value
                 \o <<"\"\n\n## Available sections:\n- ">>
                 \o TitleList(parseSections(content), 1)
        /\ DOMAIN result.metadata = {"totalSections"}
        /\ result.metadata.totalSections = Len(parseSections(content))

\* C15 witness: the query "z" on a document of two sections has returned the
\* not-found message.
C15_Witness ==
    /\ result # NoResult
    /\ result.request.section = Some(<<"z">>)
    /\ Len(parseSections(content)) = 2
    /\ Head(result.content) = "# Section Not Found\n\nCould not find section matching: \""

\* What the table of contents starts with, before its entries.
TocHeader ==
    <<"# Vendure Documentation - Table of Contents\n\n",
      "Use the 'section' parameter to retrieve specific sections.\n\n",
      "## Available Sections\n\n">>

\* C17: the sections of a document have strictly increasing startLine; each but
\* the last ends on the line before the next section starts; the last ends on
\* the last line of the document; every section starts on a heading line and
\* has no other heading line; a document without heading line has no section
\* and its table of contents reports totalSections = 0 and lists no entry.
C17_SectionOrder ==
    LET sections == parseSections(content)
        n == Len(sections)
        lastLine == Cardinality(NewlinesOf(content))
        Line(k) == SubSeq(content, LineStart(content, k), LineEnd(content, k))
        headings == {k \in 0..lastLine : headerMatch(Line(k)).matched}
    IN  /\ \A i \in 1..n :
              /\ sections[i].startLine \in headings
              /\ sections[i].startLine <= sections[i].endLine
              /\ i < n => /\ sections[i].startLine < sections[i + 1].startLine
                          /\ sections[i].endLine = sections[i + 1].startLine - 1
              /\ i = n => sections[i].endLine = lastLine
        /\ headings = {sections[i].startLine : i \in 1..n}
        /\ headings = {} => n = 0
        /\ (result # NoResult /\ "totalSections" \in DOMAIN result.metadata) =>
               result.metadata.totalSections = Cardinality(headings)
        /\ (result # NoResult /\ headings = {}
               /\ FalsyString(result.request.section) /\ FalsyNumber(result.request.page)) =>
               /\ result.metadata.totalSections = 0
               /\ SubSeq(result.content, 1, 4) = TocHeader \o <<"\n## Usage Examples\n\n">>

\* C17 witness: the table of contents of a document of three lines with
\* headings on its first and last line has been served.
C17_Witness ==
    /\ result # NoResult
    /\ "totalSections" \in DOMAIN result.metadata
    /\ result.metadata.totalSections = 2
    /\ Cardinality(NewlinesOf(content)) = 2
    /\ Len(parseSections(content)) = 2
    /\ parseSections(content)[1].endLine = 1
    /\ parseSections(content)[2].startLine = 2
    /\ parseSections(content)[2].endLine = 2

\* C17 witness of the degenerate case: the table of contents of the empty
\* document has been served.
C17_WitnessEmpty ==
    /\ result # NoResult /\ content = <<>>
    /\ "totalSections" \in DOMAIN result.metadata
    /\ result.metadata.totalSections = 0

\* The line k (0-based) of a text.
LineOf(text, k) == SubSeq(text, LineStart(text, k), LineEnd(text, k))

\* The number of '#' characters a line starts with.
RECURSIVE HashesOf(_)
HashesOf(line) == IF line # <<>> /\ Head(line) = "#" THEN 1 + HashesOf(Tail(line)) ELSE 0

\* A line of 1 to 6 '#' characters, then at least one white-space character,
\* then non-empty trailing text ("space" read as any white space).
OpensSection(line) ==
    /\ HashesOf(line) \in 1..6
    /\ \E w \in 1..Len(line) :
          /\ HashesOf(line) + w < Len(line)
          /\ \A i \in 1..w : line[HashesOf(line) + i] \in {" ", "\t", "\r", "\f"}

\* The lines from..to (0-based) of a text, each followed by a newline.
RECURSIVE LinesWithNewline(_, _, _)
LinesWithNewline(text, from, to) ==
    IF from > to THEN <<>>
    ELSE LineOf(text, from) \o <<"\n">> \o LinesWithNewline(text, from + 1, to)

\* C18: a line starts a section if and only if it is 1 to 6 '#' characters, at
\* least one space and non-empty trailing text; the level of the section is the
\* number of '#' characters and its title the trimmed trailing text; the lines
\* after it up to the next such line are its body; lines before the first such
\* line are in no section.
C18_HeadingLines ==
    (result # NoResult /\ "totalSections" \in DOMAIN result.metadata) =>
    LET sections == parseSections(content)
        lastLine == Cardinality(NewlinesOf(content))
        starts == {sections[i].startLine : i \in 1..Len(sections)}
    IN  /\ result.metadata.totalSections
               = Cardinality({k \in 0..lastLine : OpensSection(LineOf(content, k))})
        /\ \A k \in 0..lastLine : k \in starts <=> OpensSection(LineOf(content, k))
        /\ \A i \in 1..Len(sections) :
              LET line == LineOf(content, sections[i].startLine)
              IN  /\ sections[i].level = HashesOf(line)
                  /\ sections[i].level \in 1..6
                  /\ sections[i].title = trim(SubSeq(line, HashesOf(line) + 1, Len(line)))
                  /\ sections[i].content
                         = LinesWithNewline(content, sections[i].startLine, sections[i].endLine)
        /\ \A k \in 0..lastLine :
              (\A j \in 0..k : ~OpensSection(LineOf(content, j))) =>
                  \A i \in 1..Len(sections) : sections[i].startLine > k

(***************************************************************************)
(* Properties of the disk cache and of the two kinds                       *)
(***************************************************************************)
\* C19: a load from the disk cache gives a document only when the stored
\* timestamp is less than TTL old; when it is at least TTL old the load goes on
\* to delete the file and reports absent whether or not the delete succeeds; a
\* missing, unreadable or unparsable file is reported absent; an absent load
\* never throws (the resolve goes on to the fallback) and leaves the memory
\* slots as they are.
C19_DiskLoadNeverStale ==
    [][\A c \in DOMAIN calls :
          LET f == FilenameOf(calls[c].cacheType)
              parsed == JSONparse(disk[f])
              old == parsed.ok /\ now - parsed.val.timestamp >= CACHE_TTL_MS
              absent == /\ calls'[c].pc = "done" /\ calls'[c].path = "fallback"
                        /\ ~calls'[c].threw
                        /\ UNCHANGED <<llmsTxtCache, llmsFullTxtCache>>
          IN  /\ (calls[c].pc = "read" /\ calls'[c].pc # "read") =>
                     /\ calls'[c].path = "disk" =>
                            /\ parsed.ok /\ ~old
                            /\ calls'[c].ret = parsed.val.content
                     /\ (old /\ ReadSettled(c, TRUE)) =>
                            /\ calls'[c].pc = "unlink"
                            /\ UNCHANGED <<llmsTxtCache, llmsFullTxtCache, disk>>
                     /\ (~parsed.ok \/ ReadSettled(c, FALSE)) => absent /\ disk' = disk
              /\ (calls[c].pc = "unlink" /\ calls'[c].pc # "unlink") =>
                     /\ absent
                     /\ UnlinkSettled(c, TRUE) => disk' = [disk EXCEPT ![f] = NoFile]
                     /\ UnlinkSettled(c, FALSE) => disk' = disk]_vars

\* C19 witness: a resolve has ended on the fallback after the delete of a file
\* that was exactly TTL old failed: the old document is still on disk.
C19_Witness ==
    \E c \in DOMAIN calls :
        LET parsed == JSONparse(disk[FilenameOf(calls[c].cacheType)])
        IN  /\ calls[c].pc = "done" /\ calls[c].path = "fallback"
            /\ parsed.ok
            /\ now - parsed.val.timestamp = CACHE_TTL_MS

\* The memory slot and the cache file of a kind, and the other kind.
SlotOf(cacheType) == IF cacheType = "llms" THEN llmsTxtCache ELSE llmsFullTxtCache

SlotAfter(cacheType) == IF cacheType = "llms" THEN llmsTxtCache' ELSE llmsFullTxtCache'

OtherKind(cacheType) == IF cacheType = "llms" THEN "full" ELSE "llms"

\* C20: no step of a resolve of one kind changes the memory slot or the cache
\* file of the other kind, and what the step does is settled by the slot and
\* the file of its own kind: a resolve is served from memory exactly when its
\* own slot is fresh, with that slot's content, and from disk only with the
\* content of its own file.
C20_KindsIndependent ==
    [][\A c \in DOMAIN calls :
          LET k == calls'[c].cacheType
              other == OtherKind(k)
          IN  (calls'[c] # calls[c] /\ calls'[c].pc # "idle") =>
                  /\ SlotAfter(other) = SlotOf(other)
                  /\ disk'[FilenameOf(other)] = disk[FilenameOf(other)]
                  /\ calls[c].pc = "idle" =>
                         /\ calls'[c].pc = "done" <=> Fresh(SlotOf(k), now)
                         /\ calls'[c].pc = "done" => calls'[c].ret = SlotOf(k).content
                  /\ (calls[c].pc # "idle" /\ calls'[c].path = "disk") =>
                         /\ JSONparse(disk[FilenameOf(k)]).ok
                         /\ calls'[c].ret = JSONparse(disk[FilenameOf(k)]).val.content
                         /\ SlotAfter(k) = JSONparse(disk[FilenameOf(k)]).val
                  /\ (calls[c].pc # "idle" /\ calls'[c].pc = "save") =>
                         SlotAfter(k).content = FetchedText(k, now)
                  /\ calls'[c].path = "fallback" => calls'[c].ret = StaticFallback(k)]_vars

\* C20 witness: a resolve of the full kind has been served from the network
\* while the standard kind's slot holds an expired document and the standard
\* kind's file holds the document of an earlier run.
C20_Witness ==
    \E c \in DOMAIN calls :
        /\ calls[c].pc = "done" /\ calls[c].cacheType = "full"
        /\ calls[c].path = "network"
        /\ llmsTxtCache # Null /\ ~Fresh(llmsTxtCache, now)
        /\ llmsFullTxtCache # Null /\ Fresh(llmsFullTxtCache, now)
        /\ JSONparse(disk["llms.txt"]).ok

(***************************************************************************)
(* Properties of two calls that may overlap                                *)
(***************************************************************************)
\* The document a call that returned from the network or from the disk wrote to
\* the memory slot: the text it returned, with the time of its fetch.
WrittenPair(c) ==
    [content |-> calls[c].ret, timestamp |-> calls[c].ret[Len(calls[c].ret)][3]]

\* The calls among two that wrote the memory slot.
Writers(c, d) == {x \in {c, d} : calls[x].path \in {"network", "disk"}}

\* Two calls of the same kind that both started while the slot was missing or
\* stale have both settled.
BothSettled(c, d) ==
    /\ c # d
    /\ calls[c].pc = "done" /\ calls[d].pc = "done"
    /\ calls[c].cacheType = calls[d].cacheType
    /\ calls[c].fetches = 1 /\ calls[d].fetches = 1

\* C16 as stated: when two calls of one kind that both started while the slot
\* was missing or stale have settled, each has fetched and each has written the
\* memory slot, and the slot holds the document written by one of them.
C16_Original ==
    \A c, d \in DOMAIN calls :
        BothSettled(c, d) =>
            /\ Writers(c, d) = {c, d}
            /\ SlotOf(calls[c].cacheType) \in {WrittenPair(c), WrittenPair(d)}

\* C16 amended: a call that starts while the slot of its kind is missing or
\* stale starts its own fetch, also while another call of the kind is in
\* flight; a call writes the slot when its fetch succeeds, or when its fetch
\* fails and it loads a valid disk document, and not otherwise; every change of
\* a slot is one whole content/timestamp pair written by the call that steps;
\* a call whose fetch and save succeeded returns the text it fetched itself;
\* when both calls have settled the slot holds the pair written by one of the
\* calls that wrote, and is untouched when neither wrote.
C16_OverlappingCalls ==
    /\ [][\A c \in DOMAIN calls :
             LET k == calls'[c].cacheType
                 f == FilenameOf(k)
             IN  /\ (calls[c].pc = "idle" /\ calls'[c].pc # "idle"
                        /\ ~Fresh(SlotOf(k), now)) =>
                        calls'[c].pc = "fetch" /\ calls'[c].fetches = 1
                 /\ (calls'[c] # calls[c] /\ SlotAfter(k) # SlotOf(k)) =>
                        \/ /\ calls[c].pc = "fetch" /\ calls'[c].pc = "save"
                           /\ SlotAfter(k) = [content |-> FetchedText(k, now),
                                              timestamp |-> now]
                           /\ calls'[c].cachedContent = SlotAfter(k)
                        \/ /\ calls[c].pc = "read" /\ calls'[c].path = "disk"
                           /\ SlotAfter(k) = JSONparse(disk[f]).val
                           /\ calls'[c].ret = SlotAfter(k).content
                 /\ (calls[c].pc = "fetch" /\ calls'[c].pc = "save") =>
                        SlotAfter(k) = calls'[c].cachedContent
                 /\ (calls[c].pc = "save" /\ calls'[c].pc = "done") =>
                        /\ calls'[c].path = "network"
                        /\ calls'[c].ret = calls[c].cachedContent.content
                        /\ calls'[c].ret = FetchedText(k, calls[c].cachedContent.timestamp)
                 /\ (calls'[c] # calls[c] /\ calls'[c].path = "fallback") =>
                        UNCHANGED <<llmsTxtCache, llmsFullTxtCache>>
          ]_vars
    /\ [](\A c, d \in DOMAIN calls :
             BothSettled(c, d) =>
                 /\ Writers(c, d) # {} =>
                        \E x \in Writers(c, d) : SlotOf(calls[c].cacheType) = WrittenPair(x)
                 /\ Writers(c, d) = {} => SlotOf(calls[c].cacheType) = Null)

\* C16 witness: two calls of the full kind have both returned from the
\* network texts fetched one millisecond apart, so the later one started before
\* the earlier one wrote; the slot holds the later text.
C16_Witness ==
    /\ BothSettled("c1", "c2")
    /\ calls["c1"].cacheType = "full"
    /\ calls["c1"].path = "network" /\ calls["c2"].path = "network"
    /\ WrittenPair("c1").timestamp = WrittenPair("c2").timestamp + 1
    /\ llmsFullTxtCache = WrittenPair("c1")

\* C21: no step of two calls that may overlap lowers the timestamp held in a
\* memory slot; in particular the disk document a call loads after its fetch
\* failed is not older than the entry it replaces.
C21_TimestampNeverDecreases ==
    [][\A k \in CacheTypes :
          /\ SlotAfter(k).timestamp >= SlotOf(k).timestamp
          /\ \A c \in DOMAIN calls :
                (calls[c].pc = "read" /\ calls'[c].path = "disk"
                    /\ calls[c].cacheType = k /\ SlotOf(k) # Null) =>
                    JSONparse(disk[FilenameOf(k)]).val.timestamp >= SlotOf(k).timestamp]_vars

(***************************************************************************)
(* Properties of the lifetime of a document and of the header              *)
(***************************************************************************)
\* The time of the network fetch a remote text comes from.
FetchTimeOf(text) == text[Len(text)][3]

\* A text that comes from the remote server, enhanced or not.
IsRemoteText(text) == text # <<>> /\ text[Len(text)][1] = "web"

\* C22: a text other than the static fallback is returned from memory or from
\* disk only when the validity check of that step finds it less than TTL older
\* than its network fetch, and from the network only as the text fetched by
\* the call itself; every memory slot and every cache file keeps, with a
\* text, the time of the network fetch of that text, also after a reload from
\* disk.
C22_LifetimeNotExtended ==
    /\ [][\A c \in DOMAIN calls :
             LET k == calls'[c].cacheType
             IN  (calls'[c] # calls[c] /\ calls'[c].pc = "done"
                     /\ calls'[c].path # "fallback") =>
                     /\ IsRemoteText(calls'[c].ret)
                     /\ calls'[c].path \in {"memory", "disk"} =>
                            /\ now - FetchTimeOf(calls'[c].ret) < CACHE_TTL_MS
                            /\ SlotAfter(k).content = calls'[c].ret
                            /\ SlotAfter(k).timestamp = FetchTimeOf(calls'[c].ret)
                     /\ calls'[c].path = "network" =>
                            /\ calls[c].cachedContent.content = calls'[c].ret
                            /\ calls[c].cachedContent.timestamp = FetchTimeOf(calls'[c].ret)
                     /\ calls'[c].path = "fallback" <=> IsFallbackText(calls'[c].ret)]_vars
    /\ [](\A k \in CacheTypes :
             /\ SlotOf(k) # Null =>
                    /\ IsRemoteText(SlotOf(k).content)
                    /\ SlotOf(k).timestamp = FetchTimeOf(SlotOf(k).content)
                    /\ SlotOf(k).timestamp <= now
             /\ JSONparse(disk[FilenameOf(k)]).ok =>
                    /\ IsRemoteText(JSONparse(disk[FilenameOf(k)]).val.content)
                    /\ JSONparse(disk[FilenameOf(k)]).val.timestamp
                           = FetchTimeOf(JSONparse(disk[FilenameOf(k)]).val.content))

\* C22 witness: a document of an earlier run, reloaded from disk one
\* millisecond before its expiry, is found stale by the next resolve exactly TTL
\* after its network fetch.
C22_Witness ==
    \E c \in DOMAIN calls :
        /\ calls[c].pc = "fetch"
        /\ SlotOf(calls[c].cacheType) # Null
        /\ SlotOf(calls[c].cacheType).timestamp = 1
        /\ now - FetchTimeOf(SlotOf(calls[c].cacheType).content) = CACHE_TTL_MS

\* The number of project-context headers in a text.
HeaderCount(text) ==
    Cardinality({i \in 1..Len(text) : text[i] = Head(ProjectContextHeader)})

\* The text starts with the header and holds no other.
EnhancedOnce(text) ==
    HeaderCount(text) = 1 /\ Head(text) = Head(ProjectContextHeader)

\* C23: a returned text of the standard kind holds no project-context header
\* and one of the full kind at most one, at its start: exactly one when the
\* project context is available, whichever of memory, network, disk or
\* fallback serves it; the standard slot and file hold no header, the full
\* slot and file hold the text as enhanced at its fetch; a text served from
\* memory or disk is the cached text itself.
C23_HeaderAtMostOnce ==
    /\ [](\A c \in DOMAIN calls :
             calls[c].pc = "done" =>
                 /\ calls[c].cacheType = "llms" => HeaderCount(calls[c].ret) = 0
                 /\ calls[c].cacheType = "full" =>
                        /\ HeaderCount(calls[c].ret) <= 1
                        /\ HeaderCount(calls[c].ret) = 1 => EnhancedOnce(calls[c].ret)
                        /\ projectContext => EnhancedOnce(calls[c].ret))
    /\ [](/\ HeaderCount(llmsTxtCache.content) = 0
          /\ JSONparse(disk["llms.txt"]).ok =>
                 HeaderCount(JSONparse(disk["llms.txt"]).val.content) = 0
          /\ HeaderCount(llmsFullTxtCache.content) <= 1
          /\ (llmsFullTxtCache # Null /\ projectContext) =>
                 EnhancedOnce(llmsFullTxtCache.content)
          /\ JSONparse(disk["llms-full.txt"]).ok =>
                 /\ HeaderCount(JSONparse(disk["llms-full.txt"]).val.content) <= 1
                 /\ projectContext =>
                        EnhancedOnce(JSONparse(disk["llms-full.txt"]).val.content))
    /\ [][\A c \in DOMAIN calls :
             LET k == calls'[c].cacheType
             IN  /\ (calls[c].pc = "idle" /\ calls'[c].pc = "done") =>
                        calls'[c].ret = SlotOf(k).content
                 /\ (calls[c].pc = "read" /\ calls'[c].path = "disk") =>
                        calls'[c].ret = JSONparse(disk[FilenameOf(k)]).val.content
                 /\ (calls[c].pc = "save" /\ calls'[c].pc = "done") =>
                        calls'[c].ret = SlotOf(k).content]_vars

\* C23 witness: a resolve of the full kind has been served from memory a text
\* that was enhanced at its fetch and saved to disk in the same form.
C23_Witness ==
    \E c \in DOMAIN calls :
        /\ calls[c].pc = "done" /\ calls[c].cacheType = "full"
        /\ calls[c].path = "memory"
        /\ projectContext
        /\ EnhancedOnce(calls[c].ret)
        /\ FetchTimeOf(calls[c].ret) > 1
        /\ JSONparse(disk["llms-full.txt"]).ok
        /\ JSONparse(disk["llms-full.txt"]).val.content = calls[c].ret

====
